---- MODULE Spec2Model ----
(***************************************************************************)
(* Model of the sales-report aggregation of the point-of-sale application  *)
(* (ReportsScreen.fetchReportData in src/app/reports.tsx).                 *)
(*                                                                         *)
(* Dates.  A JavaScript Date is modelled as a record [day, ms]: the local  *)
(* calendar day counted from 2020-01-01 (day 0, a Wednesday) and the       *)
(* millisecond within that day.  The order of two Dates is the order of    *)
(* their instants.  The local time zone is taken to have a fixed offset    *)
(* (no daylight-saving transitions), so a local day has 86,400,000 ms.     *)
(* Months are numbered 0..11 and weekdays 0..6 from Sunday, as in the      *)
(* Date API.                                                               *)
(*                                                                         *)
(* Amounts.  totalAmount is a non-negative number of minor currency units; *)
(* the sums are exact (the rounding of binary floating point is not        *)
(* modelled).                                                              *)
(*                                                                         *)
(* Specifications.  SpecAgg runs the aggregation as a function of a sales  *)
(* list and a clock reading; Spec is the reports screen: fetchReportData   *)
(* split at its await, the server answering in between.  SpecApi is the    *)
(* API (the sales and products routes) serving two users, POST /sales      *)
(* split at its awaits; SpecPos is the point of sale screen of one user    *)
(* (cart, checkout) in front of the same routes; SpecPdf is the reports    *)
(* screen once its data are fetched: the charts, generatePDF split at its  *)
(* await, and the export modal.  The Mongoose schemas and the auth         *)
(* middleware are outside the sources: documents are stored with the       *)
(* fields the routes give them and req.userId is the requester.            *)
(***************************************************************************)
EXTENDS Integers, Sequences, FiniteSets, TLC

\* ---------------------------------------------------------------- bounds

MaxSales == 2

MaxRuns == 2

MaxStore == 1

MaxFetches == 2

MaxApiSales == 2

MaxCheckouts == 1

MaxPrints == 2

\* ------------------------------------------------------- the Date object

MsPerDay == 86400000

WeekMs == 604800000

IsLeap(y) == (y % 4 = 0 /\ y % 100 # 0) \/ y % 400 = 0

DaysInYear(y) == IF IsLeap(y) THEN 366 ELSE 365

DaysInMonth(y, m) ==
  IF m = 1 THEN (IF IsLeap(y) THEN 29 ELSE 28)
  ELSE IF m \in {3, 5, 8, 10} THEN 30 ELSE 31

RECURSIVE DaysBeforeYear(_)
DaysBeforeYear(y) ==
  IF y = 2020 THEN 0
  ELSE IF y > 2020 THEN DaysBeforeYear(y - 1) + DaysInYear(y - 1)
  ELSE DaysBeforeYear(y + 1) - DaysInYear(y)

\* days of the year before the first of month m (0..11)
DaysBeforeMonth(y, m) ==
  <<0, 31, 59, 90, 120, 151, 181, 212, 243, 273, 304, 334>>[m + 1]
    + (IF m >= 2 /\ IsLeap(y) THEN 1 ELSE 0)

\* new Date(year, monthIndex, day): the month index and the day may lie
\* outside 0..11 and 1..DaysInMonth; the Date constructor carries the excess
\* into the year and into the following (or preceding) months.
MakeDate(y, m, d) ==
  LET yy == y + (m \div 12)
      mm == m % 12
  IN  [day |-> DaysBeforeYear(yy) + DaysBeforeMonth(yy, mm) + (d - 1), ms |-> 0]

RECURSIVE YearOfDay(_, _)
YearOfDay(n, y) ==
  IF n < DaysBeforeYear(y) THEN YearOfDay(n, y - 1)
  ELSE IF n >= DaysBeforeYear(y + 1) THEN YearOfDay(n, y + 1)
  ELSE y

RECURSIVE MonthOfDay(_, _, _)
MonthOfDay(n, y, m) ==
  IF n >= DaysBeforeYear(y) + DaysBeforeMonth(y, m) + DaysInMonth(y, m)
  THEN MonthOfDay(n, y, m + 1)
  ELSE m

\* the calendar fields of every day from 2018-01-01 to 2025-12-31
CivilTable ==
  [n \in DaysBeforeYear(2018)..(DaysBeforeYear(2026) - 1) |->
     LET y == YearOfDay(n, 2020)
         m == MonthOfDay(n, y, 0)
     IN  [year |-> y, month |-> m,
          date |-> n - DaysBeforeYear(y) - DaysBeforeMonth(y, m) + 1]]

getFullYear(dt) == CivilTable[dt.day].year

getMonth(dt) == CivilTable[dt.day].month

getDate(dt) == CivilTable[dt.day].date

getDay(dt) == (dt.day + 3) % 7

\* new Date(date.getTime() + delta)
AddMs(dt, delta) ==
  [day |-> dt.day + ((dt.ms + delta) \div MsPerDay),
   ms  |-> (dt.ms + delta) % MsPerDay]

\* date.setDate(n): same month and time of day, day-of-month n (normalised)
setDate(dt, n) ==
  [day |-> MakeDate(getFullYear(dt), getMonth(dt), n).day, ms |-> dt.ms]

\* date.setMonth(m): same day-of-month and time of day, month m (normalised)
setMonth(dt, m) ==
  [day |-> MakeDate(getFullYear(dt), m, getDate(dt)).day, ms |-> dt.ms]

\* a >= b, a < b, a <= b on Dates (comparison of the instants)
DateGE(a, b) == a.day > b.day \/ (a.day = b.day /\ a.ms >= b.ms)

DateLT(a, b) == ~DateGE(a, b)

\* variant: <= comparing the calendar days only
DateLEByDay(a, b) == a.day <= b.day

DateLE(a, b) == DateGE(b, a)

\* toLocaleDateString('en-US', { weekday: 'short' })
WeekdayShort(dt) ==
  <<"Sun", "Mon", "Tue", "Wed", "Thu", "Fri", "Sat">>[getDay(dt) + 1]

\* toLocaleDateString('en-US', { month: 'short' })
MonthShort(dt) ==
  <<"Jan", "Feb", "Mar", "Apr", "May", "Jun",
    "Jul", "Aug", "Sep", "Oct", "Nov", "Dec">>[getMonth(dt) + 1]

\* ------------------------------------------------ fetchReportData: the sums

\* sales.reduce((sum, sale) => sum + sale.totalAmount, 0)
RECURSIVE SumAmounts(_)
SumAmounts(s) ==
  IF s = <<>> THEN 0 ELSE SumAmounts(SubSeq(s, 1, Len(s) - 1)) + s[Len(s)].totalAmount

\* array.reverse()
Reverse(s) == [k \in 1..Len(s) |-> s[Len(s) + 1 - k]]

\* today = new Date(now.getFullYear(), now.getMonth(), now.getDate())
Today(now) == MakeDate(getFullYear(now), getMonth(now), getDate(now))

\* variant: the seven days added instead of subtracted
WeekAgoAhead(now) == AddMs(Today(now), WeekMs)

\* weekAgo = new Date(today.getTime() - 7 * 24 * 60 * 60 * 1000)
WeekAgo(now) == AddMs(Today(now), -WeekMs)

\* variant: the window opens on the first day of the previous month
MonthAgoFirstOfMonth(now) ==
  MakeDate(getFullYear(Today(now)), getMonth(Today(now)) - 1, 1)

\* monthAgo = new Date(today.getFullYear(), today.getMonth() - 1, today.getDate())
MonthAgo(now) ==
  MakeDate(getFullYear(Today(now)), getMonth(Today(now)) - 1, getDate(Today(now)))

SalesSince(sales, from) == SelectSeq(sales, LAMBDA sale : DateGE(sale.date, from))

\* variant: strictly after midnight
dailySalesAfterMidnight(sales, now) ==
  SumAmounts(SelectSeq(sales, LAMBDA sale : ~DateGE(Today(now), sale.date)))

dailySales(sales, now) == SumAmounts(SalesSince(sales, Today(now)))

weeklySales(sales, now) == SumAmounts(SalesSince(sales, WeekAgo(now)))

\* variant: the month window closed at `now`
monthlySalesUpToNow(sales, now) ==
  SumAmounts(SelectSeq(SalesSince(sales, MonthAgo(now)), LAMBDA sale : DateLE(sale.date, now)))

monthlySales(sales, now) == SumAmounts(SalesSince(sales, MonthAgo(now)))

\* ---------------------------------------------- fetchReportData: the series

\* dayStart of the callback of Array.from({ length: 7 }, (_, i) => ...)
DayStart(now, i) ==
  LET today == Today(now)
      date  == setDate(today, getDate(today) - i)
  IN  MakeDate(getFullYear(date), getMonth(date), getDate(date))

\* variant: the day's window reaching one millisecond past the next midnight
DayEndPastMidnight(now, i) ==
  LET dayStart == DayStart(now, i)
  IN  AddMs(setDate(dayStart, getDate(dayStart) + 1), 1)

\* dayEnd = new Date(dayStart); dayEnd.setDate(dayEnd.getDate() + 1)
DayEnd(now, i) ==
  LET dayStart == DayStart(now, i)
  IN  setDate(dayStart, getDate(dayStart) + 1)

\* variant: the day's window closed at both ends
DayEntryEndInclusive(sales, now, i) ==
  LET dayStart == DayStart(now, i)
      dayEnd   == DayEnd(now, i)
  IN  [date   |-> WeekdayShort(dayStart),
       amount |-> SumAmounts(SelectSeq(sales, LAMBDA sale :
                     DateGE(sale.date, dayStart) /\ DateLE(sale.date, dayEnd)))]

DayEntry(sales, now, i) ==
  LET dayStart == DayStart(now, i)
      dayEnd   == DayEnd(now, i)
  IN  [date   |-> WeekdayShort(dayStart),
       amount |-> SumAmounts(SelectSeq(sales, LAMBDA sale :
                     DateGE(sale.date, dayStart) /\ DateLT(sale.date, dayEnd)))]

\* variant: without the final reverse()
dailyTrendNewestFirst(sales, now) == [k \in 1..7 |-> DayEntry(sales, now, k - 1)]

dailyTrend(sales, now) == Reverse([k \in 1..7 |-> DayEntry(sales, now, k - 1)])

weekdays == <<"Sun", "Mon", "Tue", "Wed", "Thu", "Fri", "Sat">>

\* variant: every sale of the weekday, without the weekAgo cutoff
WeekdayEntryAllHistory(sales, now, day) ==
  [day    |-> day,
   amount |-> SumAmounts(SelectSeq(sales, LAMBDA sale :
                 weekdays[getDay(sale.date) + 1] = day))]

WeekdayEntry(sales, now, day) ==
  LET weekAgo == WeekAgo(now)
  IN  [day    |-> day,
       amount |-> SumAmounts(SelectSeq(sales, LAMBDA sale :
                     DateGE(sale.date, weekAgo) /\ weekdays[getDay(sale.date) + 1] = day))]

\* variant: the week starting on Monday
weeklyDistributionMondayFirst(sales, now) ==
  [k \in 1..7 |-> WeekdayEntry(sales, now, weekdays[(k % 7) + 1])]

weeklyDistribution(sales, now) == [k \in 1..7 |-> WeekdayEntry(sales, now, weekdays[k])]

\* date = new Date(today); date.setMonth(date.getMonth() - i)
MonthDate(now, i) ==
  LET today == Today(now)
  IN  setMonth(today, getMonth(today) - i)

\* monthStart = new Date(date.getFullYear(), date.getMonth(), 1)
MonthStart(now, i) ==
  LET date == MonthDate(now, i)
  IN  MakeDate(getFullYear(date), getMonth(date), 1)

\* variant: day 0 of the month itself, the last day of the month before
MonthEndOfPreviousMonth(now, i) ==
  LET date == MonthDate(now, i)
  IN  MakeDate(getFullYear(date), getMonth(date), 0)

\* monthEnd = new Date(date.getFullYear(), date.getMonth() + 1, 0)
MonthEnd(now, i) ==
  LET date == MonthDate(now, i)
  IN  MakeDate(getFullYear(date), getMonth(date) + 1, 0)

\* variant: the month's window open at monthEnd
MonthEntryEndExclusive(sales, now, i) ==
  LET monthStart == MonthStart(now, i)
      monthEnd   == MonthEnd(now, i)
  IN  [month  |-> MonthShort(monthStart),
       amount |-> SumAmounts(SelectSeq(sales, LAMBDA sale :
                     DateGE(sale.date, monthStart) /\ DateLT(sale.date, monthEnd)))]

MonthEntry(sales, now, i) ==
  LET monthStart == MonthStart(now, i)
      monthEnd   == MonthEnd(now, i)
  IN  [month  |-> MonthShort(monthStart),
       amount |-> SumAmounts(SelectSeq(sales, LAMBDA sale :
                     DateGE(sale.date, monthStart) /\ DateLE(sale.date, monthEnd)))]

\* variant: without the final reverse()
monthlyBreakdownNewestFirst(sales, now) == [k \in 1..6 |-> MonthEntry(sales, now, k - 1)]

monthlyBreakdown(sales, now) == Reverse([k \in 1..6 |-> MonthEntry(sales, now, k - 1)])

\* the object handed to setReportData
AggregateReport(sales, now) ==
  [dailySales         |-> dailySales(sales, now),
   weeklySales        |-> weeklySales(sales, now),
   monthlySales       |-> monthlySales(sales, now),
   dailyTrend         |-> dailyTrend(sales, now),
   weeklyDistribution |-> weeklyDistribution(sales, now),
   monthlyBreakdown   |-> monthlyBreakdown(sales, now)]

\* useState<ReportData>({ ... }): the aggregate before any run
InitialReportData ==
  [dailySales         |-> 0,
   weeklySales        |-> 0,
   monthlySales       |-> 0,
   dailyTrend         |-> <<>>,
   weeklyDistribution |-> <<>>,
   monthlyBreakdown   |-> <<>>]

\* ------------------------------------------------------------ the inputs

At(y, m, d, ms) == [day |-> MakeDate(y, m, d).day, ms |-> ms]

Sale(dt, amount) == [date |-> dt, totalAmount |-> amount]

\* now = 2024-03-15T10:00:00 and the three sales of the worked scenario
ScenarioNow == At(2024, 2, 15, 10 * 60 * 60 * 1000)

ScenarioSales ==
  << Sale(At(2024, 2, 15, 9 * 60 * 60 * 1000), 100),
     Sale(At(2024, 2, 8, 9 * 60 * 60 * 1000), 50),
     Sale(At(2024, 1, 1, 9 * 60 * 60 * 1000), 200) >>

\* the values of `new Date()` the runs are tried with: a mid-month morning,
\* a midnight on a 31st, and the last millisecond of 3 February (the seven-day
\* window then reaches back into January, the six months into the year before)
Nows ==
  { ScenarioNow,
    At(2024, 4, 31, 0),
    At(2024, 1, 3, MsPerDay - 1) }

\* the sale records the lists are built from
SaleCandidates ==
  { ScenarioSales[1], ScenarioSales[2], ScenarioSales[3],
    Sale(At(2024, 4, 31, 0), 20),                      \* exactly a local midnight
    Sale(At(2024, 4, 30, MsPerDay - 1), 3),            \* one millisecond earlier
    Sale(At(2024, 0, 31, 10 * 60 * 60 * 1000), 1000),  \* last day of a month
    Sale(At(2024, 2, 8, 0), 1) }                       \* 168 h before 15 March

\* two longer lists that are always tried: the worked scenario, and two sales
\* of consecutive days followed by a sale of months before
NamedLists ==
  { ScenarioSales,
    << Sale(At(2024, 4, 31, 0), 20), Sale(At(2024, 4, 30, MsPerDay - 1), 3),
       ScenarioSales[1] >> }

RECURSIVE SeqsUpTo(_, _)
SeqsUpTo(S, n) ==
  IF n = 0 THEN {<<>>}
  ELSE LET shorter == SeqsUpTo(S, n - 1)
       IN  shorter \cup {Append(q, x) : q \in {r \in shorter : Len(r) = n - 1}, x \in S}

\* -------------------------------------------------- the reports screen state

VARIABLES
  aggSales,    \* the aggregator alone: the sales list it is given
  aggNow,      \*   the value of `new Date()` it is run at
  aggOut,      \*   the aggregate of its latest run
  aggPrev,     \*   the aggregate of the run before
  aggRuns,     \*   the number of runs so far
  aggMoved,    \*   whether the latest run got the list in another order
  saleStore,   \* the screen: the sale records the server holds, in creation order
  inflight,    \*   the getSales requests awaited by fetchReportData invocations
  started,     \*   the number of fetchReportData invocations so far
  reportData,  \*   useState reportData
  loading,     \*   useState loading
  stored,      \*   whether a run has called setReportData
  lastSales,   \*   the sales list of the last run that called setReportData
  lastNow,     \*   the `now` of that run
  token,       \*   whether AsyncStorage holds the authentication token
  calls,       \*   the number of salesService.getSales calls so far
  requests,    \*   the number of GET /sales requests sent so far
  resolved,    \*   the invocations whose getSales resolved, in completion order
  products,    \* the API: the Product collection
  saleDocs,    \*   the Sale collection, in creation order
  created,     \*   the number of documents constructed so far (ids, timestamps)
  post,        \*   the POST /sales request being handled, if any
  resp,        \*   the response of the request completed last
  cart,        \*   the point of sale: useState cart
  showCheckoutModal,  \*   useState showCheckoutModal
  showReceiptModal,   \*   useState showReceiptModal
  receiptData,        \*   useState receiptData
  showModal,   \* the export: useState showModal of the reports screen
  reportFile,  \*   useState reportFile
  printJobs,   \*   the printToFileAsync calls awaited by generatePDF invocations
  prints,      \*   the number of generatePDF invocations so far
  chart,       \*   what the screen was last rendered with: cards and chart data
  shared       \*   the files handed to the share sheet or the media library

aggVars == <<aggSales, aggNow, aggOut, aggPrev, aggRuns, aggMoved>>

screenVars ==
  <<saleStore, inflight, started, reportData, loading, stored, lastSales, lastNow,
    token, calls, requests, resolved>>

apiVars == <<products, saleDocs, created, post, resp, cart>>

posVars == <<showCheckoutModal, showReceiptModal, receiptData>>

pdfVars == <<showModal, reportFile, printJobs, prints, chart, shared>>

vars == <<aggVars, screenVars, apiVars, posVars, pdfVars>>

AggInit ==
  /\ aggSales \in SeqsUpTo(SaleCandidates, MaxSales) \cup NamedLists
  /\ aggNow \in Nows
  /\ aggOut = InitialReportData
  /\ aggPrev = InitialReportData
  /\ aggRuns = 0
  /\ aggMoved = FALSE

ScreenInit ==
  /\ saleStore = <<>>
  /\ inflight = {}
  /\ started = 0
  /\ reportData = InitialReportData
  /\ loading = TRUE
  /\ stored = FALSE
  /\ lastSales = <<>>
  /\ lastNow = ScenarioNow
  /\ token = TRUE
  /\ calls = 0
  /\ requests = 0
  /\ resolved = <<>>

\* JavaScript's null: a state that holds nothing yet, the reference of a
\* populated record whose document is gone
Null == [null |-> TRUE]

\* the API right after deployment, the point of sale with an empty cart
NoPost == [status |-> "none"]

NoResponse == [route |-> "none", userId |-> "none", status |-> 0, body |-> <<>>]

ApiInit ==
  /\ products = {}
  /\ saleDocs = <<>>
  /\ created = [products |-> 0, sales |-> 0]
  /\ post = NoPost
  /\ resp = NoResponse
  /\ cart = <<>>

\* the point of sale and the reports screen with their modals closed, nothing
\* exported and no chart rendered yet
ModalInit ==
  /\ showCheckoutModal = FALSE
  /\ showReceiptModal = FALSE
  /\ receiptData = Null
  /\ showModal = FALSE
  /\ reportFile = Null
  /\ printJobs = {}
  /\ prints = 0
  /\ chart = Null
  /\ shared = {}

\* ------------------------------------------- the aggregator as a function

\* variant: a run that adds its daily total to the one already held
RunAggregatorAccumulating ==
  /\ aggRuns < MaxRuns
  /\ aggPrev' = aggOut
  /\ aggOut' = [AggregateReport(aggSales, aggNow) EXCEPT !.dailySales = aggOut.dailySales + @]
  /\ aggRuns' = aggRuns + 1
  /\ aggMoved' = FALSE
  /\ UNCHANGED <<aggSales, aggNow, screenVars, apiVars, posVars, pdfVars>>

\* one run of the body of fetchReportData on (aggSales, aggNow)
RunAggregator ==
  /\ aggRuns < MaxRuns
  /\ aggPrev' = aggOut
  /\ aggOut' = AggregateReport(aggSales, aggNow)
  /\ aggRuns' = aggRuns + 1
  /\ aggMoved' = FALSE
  /\ UNCHANGED <<aggSales, aggNow, screenVars, apiVars, posVars, pdfVars>>

\* a further run that is handed the same records in another order: two
\* unequal neighbours of the list have changed places
RunAggregatorReordered ==
  /\ aggRuns >= 1
  /\ aggRuns < MaxRuns
  /\ \E i \in 1..(Len(aggSales) - 1) :
       /\ aggSales[i] # aggSales[i + 1]
       /\ aggSales' = [aggSales EXCEPT ![i] = aggSales[i + 1], ![i + 1] = aggSales[i]]
  /\ aggPrev' = aggOut
  /\ aggOut' = AggregateReport(aggSales', aggNow)
  /\ aggRuns' = aggRuns + 1
  /\ aggMoved' = TRUE
  /\ UNCHANGED <<aggNow, screenVars, apiVars, posVars, pdfVars>>

AggNext == RunAggregator \/ RunAggregatorReordered

InitAgg == AggInit /\ ScreenInit /\ ApiInit /\ ModalInit

SpecAgg == InitAgg /\ [][AggNext]_vars

\* ------------------------------------------------------- the reports screen

\* Sale.find({ userId }).sort({ date: -1 }): newest first
RECURSIVE InsertByDateDesc(_, _)
InsertByDateDesc(sorted, sale) ==
  IF sorted = <<>> THEN <<sale>>
  ELSE IF DateGE(sale.date, Head(sorted).date) THEN <<sale>> \o sorted
  ELSE <<Head(sorted)>> \o InsertByDateDesc(Tail(sorted), sale)

RECURSIVE SortByDateDesc(_)
SortByDateDesc(s) ==
  IF s = <<>> THEN <<>>
  ELSE InsertByDateDesc(SortByDateDesc(SubSeq(s, 1, Len(s) - 1)), s[Len(s)])

\* the sale records and clock readings the screen is tried with
StoreCandidates == { ScenarioSales[1], ScenarioSales[3] }

ScreenNows == { ScenarioNow, At(2024, 4, 31, 0) }

\* a getSales call awaited by an invocation of fetchReportData: its state, the
\* HTTP status of its response (0 when there is none), the message of the
\* error it rejects with, the body it resolves with
Request(id, status, http, error, body) ==
  [id |-> id, status |-> status, http |-> http, error |-> error, body |-> body]

\* the message `Server error: ${response.status} ${response.statusText}`
ServerErrorMessage(http) ==
  IF http = 401 THEN "Server error: 401 Unauthorized"
  ELSE IF http = 404 THEN "Server error: 404 Not Found"
  ELSE "Server error: 500 Internal Server Error"

\* handleResponse on a response of status http whose text parses as JSON or
\* not: on a non-OK response the try block throws (JSON.parse, AUTH_REQUIRED
\* out of handleAuthError after it removed token and user, or the server's
\* message) and the catch block throws the `Server error` message instead
handleResponse(http, json) ==
  IF http \in 200..299 THEN [error |-> "", signedOut |-> FALSE]
  ELSE [error |-> ServerErrorMessage(http), signedOut |-> json /\ http = 401]

\* POST /sales stores one more sale record
RecordSale ==
  /\ Len(saleStore) < MaxStore
  /\ \E sale \in StoreCandidates : saleStore' = Append(saleStore, sale)
  /\ UNCHANGED <<inflight, started, reportData, loading, stored, lastSales, lastNow, aggVars, apiVars, posVars, pdfVars,
               token, calls, requests, resolved>>

\* fetchReportData up to its await: setLoading(true), then one call of
\* getSales, which sends its request unless getHeaders finds no token and
\* throws first
FetchStart ==
  /\ started < MaxFetches
  /\ started' = started + 1
  /\ loading' = TRUE
  /\ calls' = calls + 1
  /\ IF token
       THEN /\ inflight' = inflight \cup
                 {Request(started + 1, "pending", 0, "", <<>>)}
            /\ requests' = requests + 1
       ELSE /\ inflight' = inflight \cup
                 {Request(started + 1, "failed", 0, "No authentication token found", <<>>)}
            /\ UNCHANGED requests
  /\ UNCHANGED <<saleStore, reportData, stored, lastSales, lastNow, token, resolved, aggVars, apiVars, posVars, pdfVars>>

\* GET /sales answers a pending request with the stored records, newest first
ServerRespond(r) ==
  /\ r.status = "pending"
  /\ inflight' = (inflight \ {r}) \cup
                   {Request(r.id, "ok", 200, "", SortByDateDesc(saleStore))}
  /\ UNCHANGED <<saleStore, started, reportData, loading, stored, lastSales, lastNow, aggVars, apiVars, posVars, pdfVars,
               token, calls, requests, resolved>>

\* the request fails: fetch rejects on a network error, or the server answers
\* 500 and handleResponse throws; getSales rejects
ServerFail(r) ==
  /\ r.status = "pending"
  /\ \E failure \in { [http |-> 0, error |-> "Network request failed"],
                      [http |-> 500, error |-> handleResponse(500, TRUE).error] } :
       inflight' = (inflight \ {r}) \cup
                     {Request(r.id, "failed", failure.http, failure.error, <<>>)}
  /\ UNCHANGED <<saleStore, started, reportData, loading, stored, lastSales, lastNow, aggVars, apiVars, posVars, pdfVars,
               token, calls, requests, resolved>>

\* the request is answered 401, with a JSON body or not: handleResponse runs
\* and getSales rejects
ServerUnauthorized(r) ==
  /\ r.status = "pending"
  /\ \E json \in BOOLEAN :
       /\ inflight' = (inflight \ {r}) \cup
                        {Request(r.id, "failed", 401, handleResponse(401, json).error, <<>>)}
       /\ token' = (token /\ ~handleResponse(401, json).signedOut)
  /\ UNCHANGED <<saleStore, started, reportData, loading, stored, lastSales, lastNow,
                 calls, requests, resolved, aggVars, apiVars, posVars, pdfVars>>

\* variant: setReportData merging the new monthly total into the old one
FetchResolveMerging(r) ==
  /\ r.status = "ok"
  /\ \E now \in ScreenNows :
       /\ reportData' = [AggregateReport(r.body, now) EXCEPT
                           !.monthlySales = reportData.monthlySales + @]
       /\ lastNow' = now
  /\ lastSales' = r.body
  /\ stored' = TRUE
  /\ loading' = FALSE
  /\ inflight' = inflight \ {r}
  /\ resolved' = Append(resolved, r.id)
  /\ UNCHANGED <<saleStore, started, aggVars, apiVars, posVars, pdfVars,
               token, calls, requests>>

\* fetchReportData after its await, getSales resolved: the aggregation on
\* `new Date()`, setReportData, and setLoading(false) of the finally block
FetchResolve(r) ==
  /\ r.status = "ok"
  /\ \E now \in ScreenNows :
       /\ reportData' = AggregateReport(r.body, now)
       /\ lastNow' = now
  /\ lastSales' = r.body
  /\ stored' = TRUE
  /\ loading' = FALSE
  /\ inflight' = inflight \ {r}
  /\ resolved' = Append(resolved, r.id)
  /\ UNCHANGED <<saleStore, started, aggVars, apiVars, posVars, pdfVars,
               token, calls, requests>>

\* variant: a rejected getSales is called once more before giving up
FetchRejectRetrying(r) ==
  /\ r.status = "failed"
  /\ calls' = calls + 1
  /\ requests' = requests + 1
  /\ inflight' = (inflight \ {r}) \cup {Request(r.id, "pending", 0, "", <<>>)}
  /\ UNCHANGED <<saleStore, started, reportData, loading, stored, lastSales, lastNow,
                 token, resolved, aggVars, apiVars, posVars, pdfVars>>

\* variant: the catch block putting the empty aggregate back
FetchRejectResetting(r) ==
  /\ r.status = "failed"
  /\ reportData' = InitialReportData
  /\ loading' = FALSE
  /\ inflight' = inflight \ {r}
  /\ UNCHANGED <<saleStore, started, stored, lastSales, lastNow, aggVars, apiVars, posVars, pdfVars,
                 token, calls, requests, resolved>>

\* fetchReportData after its await, getSales rejected: the catch block logs,
\* the finally block calls setLoading(false)
FetchReject(r) ==
  /\ r.status = "failed"
  /\ loading' = FALSE
  /\ inflight' = inflight \ {r}
  /\ UNCHANGED <<saleStore, started, reportData, stored, lastSales, lastNow, aggVars, apiVars, posVars, pdfVars,
               token, calls, requests, resolved>>

Next ==
  \/ RecordSale
  \/ FetchStart
  \/ \E r \in inflight : ServerRespond(r)
  \/ \E r \in inflight : ServerFail(r)
  \/ \E r \in inflight : ServerUnauthorized(r)
  \/ \E r \in inflight : FetchResolve(r)
  \/ \E r \in inflight : FetchReject(r)

ScreenStart ==
  /\ aggSales = <<>>
  /\ aggNow = ScenarioNow
  /\ aggOut = InitialReportData
  /\ aggPrev = InitialReportData
  /\ aggRuns = 0
  /\ aggMoved = FALSE

Init == ScreenStart /\ ScreenInit /\ ApiInit /\ ModalInit

Spec == Init /\ [][Next]_vars

\* ------------------------------------- the API and the point of sale screen

\* the authenticated users (req.userId), the ids Product documents get, the
\* prices they are given, the request bodies createSale is tried with
Users == { "u1", "u2" }

ProductIds == { 1, 2 }

Prices == { 5, 7 }

RequestBodies ==
  { [items |-> << [productId |-> 1, quantity |-> 2, price |-> 5] >>,
     totalAmount |-> 10],
    [items |-> << [productId |-> 2, quantity |-> 1, price |-> 7] >>,
     totalAmount |-> 7],
    [items |-> << [productId |-> 1, quantity |-> 1, price |-> 5],
                  [productId |-> 2, quantity |-> 1, price |-> 7] >>,
     totalAmount |-> 12] }

Response(route, u, status, body) ==
  [route |-> route, userId |-> u, status |-> status, body |-> body]

\* Product.find({ userId })
FindAll(u) == { p \in products : p.userId = u }

\* Product.findOne({ _id, userId })
FindProduct(id, u) == { p \in products : p._id = id /\ p.userId = u }

\* POST /products: one more product document of the requester
CreateProduct(u, price) ==
  /\ created.products + 1 \in ProductIds
  /\ products' = products \cup
       {[_id |-> created.products + 1, userId |-> u, price |-> price]}
  /\ created' = [created EXCEPT !.products = @ + 1]
  /\ resp' = Response("POST /products", u, 201, <<>>)
  /\ UNCHANGED <<saleDocs, post, cart, aggVars, screenVars, posVars, pdfVars>>

\* PUT /products/:id: 404 unless the requester owns it, else the new price
UpdateProduct(u, id, price) ==
  /\ IF FindProduct(id, u) = {}
       THEN /\ resp' = Response("PUT /products", u, 404, <<>>)
            /\ UNCHANGED products
       ELSE /\ products' = { IF p._id = id /\ p.userId = u
                               THEN [p EXCEPT !.price = price] ELSE p : p \in products }
            /\ resp' = Response("PUT /products", u, 200, <<>>)
  /\ UNCHANGED <<saleDocs, created, post, cart, aggVars, screenVars, posVars, pdfVars>>

\* variant: deleting a product also deletes the sale records that sold it
DeleteProductCascading(u, id) ==
  /\ IF FindProduct(id, u) = {}
       THEN /\ resp' = Response("DELETE /products", u, 404, <<>>)
            /\ UNCHANGED <<products, saleDocs>>
       ELSE /\ products' = products \ FindProduct(id, u)
            /\ saleDocs' = SelectSeq(saleDocs, LAMBDA s :
                             \A i \in 1..Len(s.items) : s.items[i].productId # id)
            /\ resp' = Response("DELETE /products", u, 200, <<>>)
  /\ UNCHANGED <<created, post, cart, aggVars, screenVars, posVars, pdfVars>>

\* DELETE /products/:id: 404 unless the requester owns it, else it is removed
DeleteProduct(u, id) ==
  /\ IF FindProduct(id, u) = {}
       THEN /\ resp' = Response("DELETE /products", u, 404, <<>>)
            /\ UNCHANGED products
       ELSE /\ products' = products \ FindProduct(id, u)
            /\ resp' = Response("DELETE /products", u, 200, <<>>)
  /\ UNCHANGED <<saleDocs, created, post, cart, aggVars, screenVars, posVars, pdfVars>>

\* new Sale({ items, totalAmount, userId }): the document with its id and its
\* creation timestamp
NewSale(items, totalAmount, userId) ==
  [_id |-> created.sales + 1, userId |-> userId, items |-> items,
   totalAmount |-> totalAmount, date |-> AddMs(ScenarioNow, created.sales + 1)]

\* POST /sales up to its first await: the route constructs the document from
\* the request body and the requester
PostSale(u, body) ==
  /\ post = NoPost
  /\ created.sales < MaxApiSales
  /\ post' = [status |-> "verifying", next |-> 1,
              sale |-> NewSale(body.items, body.totalAmount, u)]
  /\ created' = [created EXCEPT !.sales = @ + 1]
  /\ UNCHANGED <<products, saleDocs, resp, cart, aggVars, screenVars, posVars, pdfVars>>

\* POST /sales, one turn of the loop: the next item's product is looked up
\* for the requester, 404 if it is not there
VerifyProduct ==
  /\ post.status = "verifying"
  /\ post.next <= Len(post.sale.items)
  /\ IF FindProduct(post.sale.items[post.next].productId, post.sale.userId) # {}
       THEN /\ post' = [post EXCEPT !.next = @ + 1]
            /\ UNCHANGED resp
       ELSE /\ post' = [post EXCEPT !.status = "notfound"]
            /\ resp' = Response("POST /sales", post.sale.userId, 404, <<>>)
  /\ UNCHANGED <<products, saleDocs, created, cart, aggVars, screenVars, posVars, pdfVars>>

\* POST /sales after the loop: sale.save(), 201
SaveSale ==
  /\ post.status = "verifying"
  /\ post.next > Len(post.sale.items)
  /\ saleDocs' = Append(saleDocs, post.sale)
  /\ post' = [post EXCEPT !.status = "created"]
  /\ resp' = Response("POST /sales", post.sale.userId, 201, <<>>)
  /\ UNCHANGED <<products, created, cart, aggVars, screenVars, posVars, pdfVars>>

\* .populate('items.productId', 'name price'): each item's product reference
\* replaced by the product document, or null when it no longer exists
Populate(sale) ==
  [sale EXCEPT !.items =
     [i \in 1..Len(sale.items) |->
        [sale.items[i] EXCEPT !.productId =
           IF \E p \in products : p._id = sale.items[i].productId
             THEN [_id |-> sale.items[i].productId,
                   price |-> (CHOOSE p \in products : p._id = sale.items[i].productId).price]
             ELSE Null]]]

\* variant: Sale.find() without the userId filter
SalesOfAnyone(u) == saleDocs

\* Sale.find({ userId: req.userId })
SalesOf(u) == SelectSeq(saleDocs, LAMBDA s : s.userId = u)

\* GET /sales: the requester's sale records, populated, newest first
GetSales(u) ==
  /\ resp' = Response("GET /sales", u, 200,
                      LET found == SortByDateDesc(SalesOf(u))
                      IN  [i \in 1..Len(found) |-> Populate(found[i])])
  /\ UNCHANGED <<products, saleDocs, created, post, cart, aggVars, screenVars, posVars, pdfVars>>

\* the response of POST /sales reaches the client that sent it: createSale
\* settles, resolved on 201 and rejected on 404
CreateSaleSettled ==
  /\ post.status \in {"created", "notfound"}
  /\ post' = NoPost
  /\ UNCHANGED <<products, saleDocs, created, resp, cart, aggVars, screenVars, posVars, pdfVars>>

ApiNext ==
  \/ \E u \in Users, price \in Prices : CreateProduct(u, price)
  \/ \E u \in Users, id \in ProductIds, price \in Prices : UpdateProduct(u, id, price)
  \/ \E u \in Users, id \in ProductIds : DeleteProduct(u, id)
  \/ \E u \in Users, body \in RequestBodies : PostSale(u, body)
  \/ VerifyProduct
  \/ SaveSale
  \/ CreateSaleSettled
  \/ \E u \in Users : GetSales(u)

InitApi == ApiInit /\ ScreenInit /\ ScreenStart /\ ModalInit

SpecApi == InitApi /\ [][ApiNext]_vars

\* ------------------------------------------------ the point of sale screen

\* the account the device is logged in to, the products it has when the
\* screen opens, the quantities a cart line is taken through
PosUser == "u1"

Catalogue ==
  { [_id |-> 1, userId |-> PosUser, price |-> 5],
    [_id |-> 2, userId |-> PosUser, price |-> 7] }

Quantities == { 1, 2 }

\* the texts typed into the quantity field of a cart line, as characters
QuantityTexts ==
  { <<>>, <<"0">>, <<"2">>, <<"-", "1">>, <<"1", ".", "5">>, <<"a">>, <<"2", "x">> }

PosInit ==
  /\ products = Catalogue
  /\ saleDocs = <<>>
  /\ created = [products |-> Cardinality(Catalogue), sales |-> 0]
  /\ post = NoPost
  /\ resp = NoResponse
  /\ cart = <<>>

\* prevCart.findIndex(item => item._id === productId), counted from 1
CartIndex(id) ==
  IF \E i \in 1..Len(cart) : cart[i]._id = id
    THEN CHOOSE i \in 1..Len(cart) : cart[i]._id = id
    ELSE 0

\* the cart and the product grid can be touched: neither the checkout modal
\* nor the receipt modal lies over them
CartReachable == ~showCheckoutModal /\ ~showReceiptModal

\* addToCart(product): one more of a line already in the cart, else a new line
\* of quantity 1 carrying the product's price
addToCart(product) ==
  /\ CartReachable
  /\ LET i == CartIndex(product._id)
     IN  IF i # 0
           THEN /\ cart[i].quantityInCart + 1 \in Quantities
                /\ cart' = [cart EXCEPT ![i].quantityInCart = @ + 1]
           ELSE cart' = Append(cart, [_id |-> product._id, price |-> product.price,
                                      quantityInCart |-> 1])
  /\ UNCHANGED <<products, saleDocs, created, post, resp, aggVars, screenVars, posVars, pdfVars>>

\* removeFromCart(productId): one less, the line dropped at quantity 1
removeFromCart(productId) ==
  /\ CartReachable
  /\ LET i == CartIndex(productId)
     IN  /\ i # 0
         /\ cart' = IF cart[i].quantityInCart > 1
                      THEN [cart EXCEPT ![i].quantityInCart = @ - 1]
                      ELSE SelectSeq(cart, LAMBDA item : item._id # productId)
  /\ UNCHANGED <<products, saleDocs, created, post, resp, aggVars, screenVars, posVars, pdfVars>>

\* the decimal digits and their values
DigitChars == <<"0", "1", "2", "3", "4", "5", "6", "7", "8", "9">>

IsDigit(ch) == \E d \in 1..10 : DigitChars[d] = ch

DigitValue(ch) == (CHOOSE d \in 1..10 : DigitChars[d] = ch) - 1

\* the longest run of digits a text starts with
RECURSIVE LeadingDigits(_)
LeadingDigits(text) ==
  IF text = <<>> \/ ~IsDigit(Head(text)) THEN <<>>
  ELSE <<Head(text)>> \o LeadingDigits(Tail(text))

RECURSIVE DigitsValue(_)
DigitsValue(digits) ==
  IF digits = <<>> THEN 0
  ELSE 10 * DigitsValue(SubSeq(digits, 1, Len(digits) - 1))
         + DigitValue(digits[Len(digits)])

\* parseInt(text): an optional sign, then the leading digits; NaN when there
\* is no digit
parseInt(text) ==
  LET signed == text # <<>> /\ Head(text) \in {"-", "+"}
      digits == LeadingDigits(IF signed THEN Tail(text) ELSE text)
  IN  IF digits = <<>> THEN [nan |-> TRUE, value |-> 0]
      ELSE [nan |-> FALSE,
            value |-> IF signed /\ Head(text) = "-"
                        THEN 0 - DigitsValue(digits) ELSE DigitsValue(digits)]

\* parseInt(text) || 0: NaN and 0 are falsy
QuantityTyped(text) ==
  LET n == parseInt(text)
  IN  IF n.nan \/ n.value = 0 THEN 0 ELSE n.value

\* variant: the quantity check letting 0 through
updateCartItemQuantityKeepingZero(productId, newQuantity) ==
  /\ CartReachable
  /\ LET i == CartIndex(productId)
     IN  /\ i # 0
         /\ cart' = IF newQuantity < 0
                      THEN SelectSeq(cart, LAMBDA item : item._id # productId)
                      ELSE [cart EXCEPT ![i].quantityInCart = newQuantity]
  /\ UNCHANGED <<products, saleDocs, created, post, resp, aggVars, screenVars, posVars, pdfVars>>

\* updateCartItemQuantity(productId, newQuantity), newQuantity being
\* parseInt(text) || 0: the line dropped at 0 or less, else set
updateCartItemQuantity(productId, newQuantity) ==
  /\ CartReachable
  /\ LET i == CartIndex(productId)
     IN  /\ i # 0
         /\ cart' = IF newQuantity <= 0
                      THEN SelectSeq(cart, LAMBDA item : item._id # productId)
                      ELSE [cart EXCEPT ![i].quantityInCart = newQuantity]
  /\ UNCHANGED <<products, saleDocs, created, post, resp, aggVars, screenVars, posVars, pdfVars>>

\* variant: the total summing the unit prices, the quantities forgotten
RECURSIVE calculateTotalOfUnitPrices(_)
calculateTotalOfUnitPrices(c) ==
  IF c = <<>> THEN 0
  ELSE calculateTotalOfUnitPrices(SubSeq(c, 1, Len(c) - 1)) + c[Len(c)].price

\* cart.reduce((total, item) => total + item.price * item.quantityInCart, 0)
RECURSIVE calculateTotal(_)
calculateTotal(c) ==
  IF c = <<>> THEN 0
  ELSE calculateTotal(SubSeq(c, 1, Len(c) - 1))
         + c[Len(c)].price * c[Len(c)].quantityInCart

\* cart.map(item => ({ productId, quantity, price }))
CartItems(c) ==
  [i \in 1..Len(c) |->
     [productId |-> c[i]._id, quantity |-> c[i].quantityInCart, price |-> c[i].price]]

\* cart.reduce((total, item) => total + item.quantityInCart, 0)
RECURSIVE getTotalItems(_)
getTotalItems(c) ==
  IF c = <<>> THEN 0
  ELSE getTotalItems(SubSeq(c, 1, Len(c) - 1)) + c[Len(c)].quantityInCart

\* handleCheckout, the checkout button of the cart: an alert on an empty cart,
\* else the confirmation modal
handleCheckout ==
  /\ CartReachable
  /\ showCheckoutModal' = IF cart = <<>> THEN showCheckoutModal ELSE TRUE
  /\ UNCHANGED <<showReceiptModal, receiptData, apiVars, aggVars, screenVars, pdfVars>>

\* the cancel button, the backdrop and the back button of the confirmation
\* modal
CloseCheckoutModal ==
  /\ showCheckoutModal
  /\ showCheckoutModal' = FALSE
  /\ UNCHANGED <<showReceiptModal, receiptData, apiVars, aggVars, screenVars, pdfVars>>

\* the close button of the receipt modal
CloseReceiptModal ==
  /\ showReceiptModal
  /\ showReceiptModal' = FALSE
  /\ UNCHANGED <<showCheckoutModal, receiptData, apiVars, aggVars, screenVars, pdfVars>>

\* processCheckout up to its await, from the confirm button of the modal, which
\* is disabled while an earlier call is awaited: createSale(items,
\* calculateTotal()) reaches POST /sales, which constructs the document; the
\* call keeps the cart of the render it was made in
processCheckout ==
  /\ showCheckoutModal
  /\ post = NoPost
  /\ created.sales < MaxCheckouts
  /\ post' = [status |-> "verifying", next |-> 1,
              sale |-> NewSale(CartItems(cart), calculateTotal(cart), PosUser),
              cart |-> cart]
  /\ created' = [created EXCEPT !.sales = @ + 1]
  /\ UNCHANGED <<products, saleDocs, resp, cart, aggVars, screenVars, posVars, pdfVars>>

\* processCheckout after its await, createSale resolved: the receipt is set
\* from the cart the call kept, the cart emptied, the confirmation modal
\* closed and the receipt modal opened
CheckoutResolved ==
  /\ post.status = "created"
  /\ receiptData' = [transactionId |-> post.sale._id, items |-> post.cart,
                      totalAmount |-> calculateTotal(post.cart),
                      totalItems |-> getTotalItems(post.cart)]
  /\ cart' = <<>>
  /\ showCheckoutModal' = FALSE
  /\ showReceiptModal' = TRUE
  /\ post' = NoPost
  /\ UNCHANGED <<products, saleDocs, created, resp, aggVars, screenVars, pdfVars>>

\* variant: the catch block emptying the cart too
CheckoutRejectedClearing ==
  /\ post.status = "notfound"
  /\ post' = NoPost
  /\ cart' = <<>>
  /\ UNCHANGED <<products, saleDocs, created, resp, aggVars, screenVars, posVars, pdfVars>>

\* processCheckout after its await, createSale rejected: an alert, the cart,
\* the receipt and the modals are kept
CheckoutRejected ==
  /\ post.status = "notfound"
  /\ post' = NoPost
  /\ UNCHANGED <<products, saleDocs, created, resp, cart, aggVars, screenVars, posVars, pdfVars>>

PosNext ==
  \/ \E p \in FindAll(PosUser) : addToCart(p)
  \/ \E i \in 1..Len(cart) : addToCart(cart[i])
  \/ \E i \in 1..Len(cart) : removeFromCart(cart[i]._id)
  \/ \E i \in 1..Len(cart), text \in QuantityTexts :
       updateCartItemQuantity(cart[i]._id, QuantityTyped(text))
  \/ handleCheckout
  \/ CloseCheckoutModal
  \/ CloseReceiptModal
  \/ processCheckout
  \/ VerifyProduct
  \/ SaveSale
  \/ CheckoutResolved
  \/ CheckoutRejected
  \/ \E id \in ProductIds : DeleteProduct(PosUser, id)

InitPos == PosInit /\ ScreenInit /\ ScreenStart /\ ModalInit

SpecPos == InitPos /\ [][PosNext]_vars


\* ------------------------------------- the reports screen: charts and export

\* a list with an amount that takes a thousands separator and amounts below
\* ten minor units
ExportSales ==
  << Sale(At(2024, 2, 15, 9 * 60 * 60 * 1000), 123456),
     Sale(At(2024, 2, 14, 9 * 60 * 60 * 1000), 5),
     Sale(At(2024, 1, 20, 9 * 60 * 60 * 1000), 100050) >>

ExportLists == NamedLists \cup { ExportSales, <<>> }

\* the screen after its first fetchReportData has settled, resolved or
\* rejected, over one of the lists
InitPdf ==
  /\ ScreenStart /\ ApiInit /\ ModalInit
  /\ \E sales \in ExportLists, fetched \in BOOLEAN :
       /\ saleStore = sales
       /\ stored = fetched
       /\ lastSales = (IF fetched THEN sales ELSE <<>>)
       /\ reportData = (IF fetched THEN AggregateReport(sales, ScenarioNow)
                                   ELSE InitialReportData)
       /\ resolved = (IF fetched THEN <<1>> ELSE <<>>)
  /\ lastNow = ScenarioNow
  /\ inflight = {}
  /\ started = 1
  /\ loading = FALSE
  /\ token = TRUE
  /\ calls = 1
  /\ requests = 1

\* the decimal digits of a natural number
RECURSIVE DigitsOf(_)
DigitsOf(n) ==
  IF n < 10 THEN <<DigitChars[n + 1]>>
  ELSE DigitsOf(n \div 10) \o <<DigitChars[(n % 10) + 1]>>

\* the digits in groups of three from the right, separated by commas
RECURSIVE Grouped(_)
Grouped(digits) ==
  IF Len(digits) <= 3 THEN digits
  ELSE Grouped(SubSeq(digits, 1, Len(digits) - 3)) \o <<",">>
         \o SubSeq(digits, Len(digits) - 2, Len(digits))

\* variant: the amount formatted without its fraction digits
formatCurrencyWhole(amount) == Grouped(DigitsOf(amount \div 100))

\* formatCurrency(amount): toLocaleString('en-PH') with exactly two fraction
\* digits; the amount is in minor units, so these are its last two digits
formatCurrency(amount) ==
  Grouped(DigitsOf(amount \div 100))
    \o <<".", DigitChars[((amount % 100) \div 10) + 1], DigitChars[(amount % 10) + 1]>>

\* variant: the sentinel used as a floor
ChartValueFloor(amount) == IF amount < 10 THEN 10 ELSE amount

\* item.amount === 0 ? 0.1 : item.amount, 0.1 being ten minor units
ChartValue(amount) == IF amount = 0 THEN 10 ELSE amount

\* the props of the three charts: labels and data
ChartData(rd) ==
  [dailyTrend |->
     [labels |-> [k \in 1..Len(rd.dailyTrend) |-> rd.dailyTrend[k].date],
      data   |-> [k \in 1..Len(rd.dailyTrend) |-> ChartValue(rd.dailyTrend[k].amount)]],
   weeklyDistribution |->
     [labels |-> [k \in 1..Len(rd.weeklyDistribution) |-> rd.weeklyDistribution[k].day],
      data   |-> [k \in 1..Len(rd.weeklyDistribution) |->
                    ChartValue(rd.weeklyDistribution[k].amount)]],
   monthlyBreakdown |->
     [labels |-> [k \in 1..Len(rd.monthlyBreakdown) |-> rd.monthlyBreakdown[k].month],
      data   |-> [k \in 1..Len(rd.monthlyBreakdown) |->
                    ChartValue(rd.monthlyBreakdown[k].amount)]]]

\* the three summary cards
SummaryCards(rd) ==
  [dailySales   |-> formatCurrency(rd.dailySales),
   weeklySales  |-> formatCurrency(rd.weeklySales),
   monthlySales |-> formatCurrency(rd.monthlySales)]

\* htmlContent: the summary cards and the three tables, a row per entry
HtmlContent(rd) ==
  [cards |-> SummaryCards(rd),
   dailyTrend |->
     [k \in 1..Len(rd.dailyTrend) |->
        [label |-> rd.dailyTrend[k].date,
         amount |-> formatCurrency(rd.dailyTrend[k].amount)]],
   weeklyDistribution |->
     [k \in 1..Len(rd.weeklyDistribution) |->
        [label |-> rd.weeklyDistribution[k].day,
         amount |-> formatCurrency(rd.weeklyDistribution[k].amount)]],
   monthlyBreakdown |->
     [k \in 1..Len(rd.monthlyBreakdown) |->
        [label |-> rd.monthlyBreakdown[k].month,
         amount |-> formatCurrency(rd.monthlyBreakdown[k].amount)]]]

\* the screen rendered while it is not loading: the cards and the charts
Render ==
  /\ ~loading
  /\ chart' = [cards |-> SummaryCards(reportData), charts |-> ChartData(reportData)]
  /\ chart' # chart
  /\ UNCHANGED <<showModal, reportFile, printJobs, prints, shared,
                 aggVars, screenVars, apiVars, posVars>>

\* generatePDF up to its await, from the header button, which the export
\* modal covers while it is shown: setLoading(true), the html built from
\* reportData, printToFileAsync called
generatePDF ==
  /\ ~showModal
  /\ prints < MaxPrints
  /\ prints' = prints + 1
  /\ loading' = TRUE
  /\ printJobs' = printJobs \cup { [id |-> prints + 1, html |-> HtmlContent(reportData),
                                     status |-> "pending"] }
  /\ UNCHANGED <<showModal, reportFile, chart, shared, saleStore, inflight, started,
                 reportData, stored, lastSales, lastNow, token, calls, requests, resolved,
                 aggVars, apiVars, posVars>>

\* Print.printToFileAsync settles: the file is written, or it is not
printToFileAsync(job) ==
  /\ job \in printJobs
  /\ job.status = "pending"
  /\ \E status \in {"resolved", "rejected"} :
       printJobs' = (printJobs \ {job}) \cup { [job EXCEPT !.status = status] }
  /\ UNCHANGED <<showModal, reportFile, prints, chart, shared,
                 aggVars, screenVars, apiVars, posVars>>

\* generatePDF after its await, printToFileAsync resolved: setReportFile,
\* setShowModal(true), and setLoading(false) in the finally block
PrintResolve(job) ==
  /\ job \in printJobs
  /\ job.status = "resolved"
  /\ printJobs' = printJobs \ {job}
  /\ reportFile' = [uri |-> job.id, name |-> job.id, html |-> job.html]
  /\ showModal' = TRUE
  /\ loading' = FALSE
  /\ UNCHANGED <<prints, chart, shared, saleStore, inflight, started,
                 reportData, stored, lastSales, lastNow, token, calls, requests, resolved,
                 aggVars, apiVars, posVars>>

\* variant: the catch block opening the modal all the same
PrintRejectOpening(job) ==
  /\ job \in printJobs
  /\ job.status = "rejected"
  /\ printJobs' = printJobs \ {job}
  /\ showModal' = TRUE
  /\ loading' = FALSE
  /\ UNCHANGED <<reportFile, prints, chart, shared, saleStore, inflight, started,
                 reportData, stored, lastSales, lastNow, token, calls, requests, resolved,
                 aggVars, apiVars, posVars>>

\* generatePDF after its await, printToFileAsync rejected: an alert, and
\* setLoading(false) in the finally block
PrintReject(job) ==
  /\ job \in printJobs
  /\ job.status = "rejected"
  /\ printJobs' = printJobs \ {job}
  /\ loading' = FALSE
  /\ UNCHANGED <<showModal, reportFile, prints, chart, shared, saleStore, inflight, started,
                 reportData, stored, lastSales, lastNow, token, calls, requests, resolved,
                 aggVars, apiVars, posVars>>

\* a file handed to the share sheet or the media library, and how
Handed(file, via) == [uri |-> file.uri, via |-> via]

\* The three handlers below are modelled as the functions they are, whether
\* or not the modal that holds their buttons is shown.
\* handleShare: nothing without a reportFile; else Sharing.shareAsync, then
\* setShowModal(false), or shareAsync rejects and an alert is all there is
handleShare ==
  /\ \E done \in BOOLEAN :
       IF reportFile = Null \/ ~done
         THEN UNCHANGED <<showModal, shared>>
         ELSE /\ shared' = shared \cup { Handed(reportFile, "share") }
              /\ showModal' = FALSE
  /\ UNCHANGED <<reportFile, printJobs, prints, chart, aggVars, screenVars, apiVars, posVars>>

\* handleSaveToDevice: nothing without a reportFile; else, after the user's
\* Continue, Sharing.shareAsync, then setShowModal(false); nothing on Cancel
\* or when shareAsync rejects
handleSaveToDevice ==
  /\ \E done \in BOOLEAN :
       IF reportFile = Null \/ ~done
         THEN UNCHANGED <<showModal, shared>>
         ELSE /\ shared' = shared \cup { Handed(reportFile, "save") }
              /\ showModal' = FALSE
  /\ UNCHANGED <<reportFile, printJobs, prints, chart, aggVars, screenVars, apiVars, posVars>>

\* handleDownload: nothing without a reportFile; else the file saved to the
\* media library or handed to the share sheet, then setShowModal(false); on a
\* refused permission or a failure an alert
handleDownload ==
  /\ \E done \in BOOLEAN :
       IF reportFile = Null \/ ~done
         THEN UNCHANGED <<showModal, shared>>
         ELSE /\ shared' = shared \cup { Handed(reportFile, "download") }
              /\ showModal' = FALSE
  /\ UNCHANGED <<reportFile, printJobs, prints, chart, aggVars, screenVars, apiVars, posVars>>

\* the cancel button and the back button of the export modal, the Cancel of
\* the alert handleDownload shows on a failure
CloseModal ==
  /\ showModal
  /\ showModal' = FALSE
  /\ UNCHANGED <<reportFile, printJobs, prints, chart, shared,
                 aggVars, screenVars, apiVars, posVars>>

PdfNext ==
  \/ Render
  \/ generatePDF
  \/ \E job \in printJobs : printToFileAsync(job)
  \/ \E job \in printJobs : PrintResolve(job)
  \/ \E job \in printJobs : PrintReject(job)
  \/ handleShare
  \/ handleSaveToDevice
  \/ handleDownload
  \/ CloseModal

SpecPdf == InitPdf /\ [][PdfNext]_vars


\* ------------------------------------------------- vocabulary of the claims

\* the total of the records of a list that satisfy P, taken record by record
RECURSIVE NumbersTotal(_)
NumbersTotal(q) == IF q = <<>> THEN 0 ELSE Head(q) + NumbersTotal(Tail(q))

TotalWhere(sales, P(_)) ==
  NumbersTotal([i \in 1..Len(sales) |-> IF P(sales[i]) THEN sales[i].totalAmount ELSE 0])

\* the sum of the amounts of a series
RECURSIVE SeriesTotal(_)
SeriesTotal(series) ==
  IF series = <<>> THEN 0 ELSE Head(series).amount + SeriesTotal(Tail(series))

\* the calendar day of `now`, as a day number
NowDay == aggNow.day

DayName(n) == weekdays[((n + 3) % 7) + 1]

MonthName(m) ==
  <<"Jan", "Feb", "Mar", "Apr", "May", "Jun",
    "Jul", "Aug", "Sep", "Oct", "Nov", "Dec">>[(m % 12) + 1]

\* the amount of the monthlyBreakdown entries labelled l
BucketOf(l) ==
  SeriesTotal(SelectSeq(aggOut.monthlyBreakdown, LAMBDA e : e.month = l))

AggRan == aggRuns >= 1

\* C1: on an empty sales list a run gives three zero scalars, a dailyTrend of
\* 7 zero entries labelled with the weekdays of the seven days ending today,
\* a weeklyDistribution of 7 zero entries labelled Sun..Sat and a
\* monthlyBreakdown of 6 zero entries labelled with the six months ending
\* with the current one.
C1_EmptyListZeroFilled ==
  (AggRan /\ aggSales = <<>>) =>
    /\ aggOut.dailySales = 0 /\ aggOut.weeklySales = 0 /\ aggOut.monthlySales = 0
    /\ Len(aggOut.dailyTrend) = 7
    /\ \A k \in 1..7 :
         aggOut.dailyTrend[k] = [date |-> DayName(NowDay - (7 - k)), amount |-> 0]
    /\ Len(aggOut.weeklyDistribution) = 7
    /\ \A k \in 1..7 :
         aggOut.weeklyDistribution[k] = [day |-> weekdays[k], amount |-> 0]
    /\ Len(aggOut.monthlyBreakdown) = 6
    /\ \A k \in 1..6 :
         aggOut.monthlyBreakdown[k] =
           [month |-> MonthName(getMonth(aggNow) - (6 - k)), amount |-> 0]

C3_DailyTrendOldestFirst ==
  AggRan =>
    /\ Len(aggOut.dailyTrend) = 7
    /\ \A k \in 1..7 :
         /\ aggOut.dailyTrend[k].date = DayName(NowDay - (7 - k))
         /\ aggOut.dailyTrend[k].amount =
              TotalWhere(aggSales, LAMBDA sale : sale.date.day = NowDay - (7 - k))
    /\ aggOut.dailyTrend[7].date = weekdays[getDay(aggNow) + 1]

C3_Witness ==
  /\ AggRan
  /\ getDate(aggNow) < 7
  /\ Cardinality({k \in 1..6 : aggOut.dailyTrend[k].amount > 0}) >= 2

\* C4: monthlyBreakdown has 6 entries, entry k is the bucket computed for
\* i = 6-k, and the month windows do not go back in time from one entry to the
\* next, also when today is a 29th, 30th or 31st.
C4_MonthlyBreakdownOrdered ==
  AggRan =>
    /\ Len(aggOut.monthlyBreakdown) = 6
    /\ \A k \in 1..6 :
         LET from == MonthStart(aggNow, 6 - k)
             to   == MonthEnd(aggNow, 6 - k)
         IN  /\ aggOut.monthlyBreakdown[k].month = MonthName(getMonth(from))
             /\ aggOut.monthlyBreakdown[k].amount =
                  TotalWhere(aggSales, LAMBDA sale :
                    DateGE(sale.date, from) /\ DateLE(sale.date, to))
    /\ \A k \in 1..5 :
         DateLE(MonthStart(aggNow, 6 - k), MonthStart(aggNow, 6 - (k + 1)))

C4_Witness ==
  /\ AggRan
  /\ getDate(aggNow) = 31
  /\ \E k \in 1..5 : aggOut.monthlyBreakdown[k].month = aggOut.monthlyBreakdown[k + 1].month
  /\ \E k \in 1..5 : aggOut.monthlyBreakdown[k].amount > 0

\* C5: dailySales counts a sale stamped exactly at today's local midnight and
\* leaves out a sale stamped one millisecond earlier: it is the total of the
\* sales whose calendar day is today or later.
C5_DailySalesMidnightBoundary ==
  AggRan =>
    aggOut.dailySales = TotalWhere(aggSales, LAMBDA sale : sale.date.day >= NowDay)

C5_Witness ==
  /\ AggRan
  /\ aggSales = << Sale([day |-> NowDay, ms |-> 0], 20),
                   Sale([day |-> NowDay - 1, ms |-> MsPerDay - 1], 3) >>
  /\ aggOut.dailySales = 20

\* the worked scenario has been run
ScenarioRan == AggRan /\ aggNow = ScenarioNow /\ aggSales = ScenarioSales

\* C6 (as stated): in the worked scenario dailySales = 100, weeklySales = 150
\* and monthlySales = 350.
C6_ScenarioTotalsAsStated ==
  ScenarioRan =>
    aggOut.dailySales = 100 /\ aggOut.weeklySales = 150 /\ aggOut.monthlySales = 350

\* C6 (amended): in the worked scenario dailySales = 100, weeklySales = 150 and
\* monthlySales = 150: the sale of 1 February is older than monthAgo, which is
\* 15 February.
C6_ScenarioTotals ==
  ScenarioRan =>
    /\ MonthAgo(aggNow) = At(2024, 1, 15, 0)
    /\ aggOut.dailySales = 100 /\ aggOut.weeklySales = 150 /\ aggOut.monthlySales = 150

C6_Witness == ScenarioRan /\ aggOut.monthlySales < aggOut.dailySales + 50 + 200

\* C7 (as stated): in the worked scenario the January bucket of
\* monthlyBreakdown is 200, the March bucket 150 and the February bucket 0.
C7_ScenarioBucketsAsStated ==
  ScenarioRan => BucketOf("Jan") = 200 /\ BucketOf("Mar") = 150 /\ BucketOf("Feb") = 0

\* C7 (amended): in the worked scenario the February bucket of monthlyBreakdown
\* is 200, the March bucket 150 and the January bucket 0.
C7_ScenarioBuckets ==
  ScenarioRan =>
    /\ BucketOf("Feb") = 200 /\ BucketOf("Mar") = 150 /\ BucketOf("Jan") = 0
    /\ aggOut.monthlyBreakdown[5] = [month |-> "Feb", amount |-> 200]
    /\ aggOut.monthlyBreakdown[6] = [month |-> "Mar", amount |-> 150]

C7_Witness == ScenarioRan /\ SeriesTotal(aggOut.monthlyBreakdown) = 350

C9_TrendSumDiffersFromWeeklySales ==
  AggRan =>
    aggOut.weeklySales =
      SeriesTotal(aggOut.dailyTrend)
        + TotalWhere(aggSales, LAMBDA sale : sale.date.day = NowDay - 7)
        + TotalWhere(aggSales, LAMBDA sale : sale.date.day > NowDay)

C9_Witness ==
  /\ AggRan
  /\ aggSales # <<>>
  /\ SeriesTotal(aggOut.dailyTrend) > 0
  /\ SeriesTotal(aggOut.dailyTrend) # aggOut.weeklySales

\* the lists GET /sales can have answered with: the stored records at some
\* moment, newest first
CompleteLists == {SortByDateDesc(SubSeq(saleStore, 1, n)) : n \in 0..Len(saleStore)}

\* C10: reportData is the initial aggregate until a run stores a result, and
\* from then on exactly the aggregate of the complete list and the `now` of the
\* last run that stored one.
C10_ReportDataIsLastAggregate ==
  /\ ~stored => reportData = InitialReportData
  /\ stored =>
       /\ lastSales \in CompleteLists
       /\ reportData = AggregateReport(lastSales, lastNow)

C10_Witness ==
  /\ stored
  /\ started >= 2
  /\ inflight = {}
  /\ lastSales # <<>>
  /\ reportData.dailySales > 0
  /\ reportData = AggregateReport(SortByDateDesc(saleStore), lastNow)

\* C11: no request changes or removes a stored sale record: in every step the
\* Sale collection keeps each of its records, field by field, at its place,
\* and can only get one more at the end.
C11_SaleRecordsAreKept ==
  [][ /\ Len(saleDocs') >= Len(saleDocs)
      /\ \A k \in 1..Len(saleDocs) : saleDocs'[k] = saleDocs[k] ]_vars

C11_Witness ==
  /\ Len(saleDocs) = 2
  /\ created.products = 2
  /\ products = {}
  /\ resp.route = "GET /sales"
  /\ Len(resp.body) >= 1

\* the sum of quantity times unit price over the items of a sale record
ItemsTotal(items) ==
  NumbersTotal([i \in 1..Len(items) |-> items[i].quantity * items[i].price])

\* C12: every sale record stored by a checkout has a totalAmount equal to the
\* sum of quantity times unit price over its items.
C12_TotalAmountIsSumOfItems ==
  \A k \in 1..Len(saleDocs) : saleDocs[k].totalAmount = ItemsTotal(saleDocs[k].items)

C12_Witness ==
  \E k \in 1..Len(saleDocs) :
    /\ Len(saleDocs[k].items) = 2
    /\ saleDocs[k].items[1].quantity = 2
    /\ saleDocs[k].items[1].price # saleDocs[k].items[2].price
    /\ saleDocs[k].totalAmount > 0

\* the positions in the Sale collection of the records of user u
RecordsOf(u) == { k \in 1..Len(saleDocs) : saleDocs[k].userId = u }

\* C13: the body of a GET /sales response holds only records of the requester
\* and every stored record of the requester, each once.
C13_ListIsTheRequestersRecords ==
  resp.route = "GET /sales" =>
    /\ \A i \in 1..Len(resp.body) : resp.body[i].userId = resp.userId
    /\ { resp.body[i]._id : i \in 1..Len(resp.body) } =
         { saleDocs[k]._id : k \in RecordsOf(resp.userId) }
    /\ Len(resp.body) = Cardinality(RecordsOf(resp.userId))

C13_Witness ==
  /\ resp.route = "GET /sales"
  /\ Len(resp.body) = 1
  /\ Len(saleDocs) = 2
  /\ \E k \in 1..Len(saleDocs) : saleDocs[k].userId # resp.userId

\* C14: every fetchReportData invocation calls getSales exactly once and sends
\* at most one request, whatever the outcome: the calls number as many as the
\* invocations, the requests no more, and no invocation ever awaits two.
C14_OneGetSalesPerInvocation ==
  /\ calls = started
  /\ requests <= started
  /\ \A r \in inflight : r.id \in 1..started
  /\ \A r1, r2 \in inflight : r1.id = r2.id => r1 = r2

C14_Witness ==
  /\ started = 2
  /\ requests = 1
  /\ inflight = {}
  /\ ~stored
  /\ ~loading

\* C15: in every state of the reports screen reportData has a dailyTrend of 7
\* entries, a weeklyDistribution of 7 entries and a monthlyBreakdown of 6.
C15_SeriesLengths ==
  /\ Len(reportData.dailyTrend) = 7
  /\ Len(reportData.weeklyDistribution) = 7
  /\ Len(reportData.monthlyBreakdown) = 6

\* the length of the calendar month before the month of `now`
DaysInPreviousMonth ==
  IF getMonth(aggNow) = 0
    THEN DaysInMonth(getFullYear(aggNow) - 1, 11)
    ELSE DaysInMonth(getFullYear(aggNow), getMonth(aggNow) - 1)

\* C16: the three scalar sums have a lower bound only: dailySales is the total
\* from today's midnight on, weeklySales from the midnight 604,800 seconds
\* (seven days) before it, monthlySales from the same day-of-month of the
\* month before (today minus the length of that month); a sale dated after
\* `now` is in all three.
C16_ScalarSumsHaveNoUpperBound ==
  AggRan =>
    /\ WeekMs = 604800 * 1000
    /\ WeekAgo(aggNow) = [day |-> NowDay - 7, ms |-> 0]
    /\ MonthAgo(aggNow) = [day |-> NowDay - DaysInPreviousMonth, ms |-> 0]
    /\ aggOut.dailySales =
         TotalWhere(aggSales, LAMBDA sale : DateGE(sale.date, [day |-> NowDay, ms |-> 0]))
    /\ aggOut.weeklySales =
         TotalWhere(aggSales, LAMBDA sale : DateGE(sale.date, [day |-> NowDay - 7, ms |-> 0]))
    /\ aggOut.monthlySales =
         TotalWhere(aggSales, LAMBDA sale :
           DateGE(sale.date, [day |-> NowDay - DaysInPreviousMonth, ms |-> 0]))
    /\ \A i \in 1..Len(aggSales) :
         (DateGE(aggSales[i].date, aggNow) /\ aggSales[i].totalAmount > 0) =>
           /\ aggOut.dailySales >= aggSales[i].totalAmount
           /\ aggOut.weeklySales >= aggSales[i].totalAmount
           /\ aggOut.monthlySales >= aggSales[i].totalAmount

C16_Witness ==
  /\ AggRan
  /\ \E i \in 1..Len(aggSales) : aggSales[i].date.day > NowDay
  /\ aggOut.dailySales =
       TotalWhere(aggSales, LAMBDA sale : sale.date.day > NowDay)
  /\ aggOut.dailySales > 0
  /\ aggOut.weeklySales > aggOut.dailySales
  /\ aggOut.monthlySales >= aggOut.weeklySales

\* C17: the dailyTrend entry of a day sums the sales from that day's midnight
\* up to, not including, the next midnight: a sale stamped exactly at a
\* midnight is in the entry of the day starting then and not in the entry
\* before, and the seven amounts together count each sale of the seven days
\* once.
C17_DailyBucketsEndExclusive ==
  AggRan =>
    /\ \A k \in 1..7 :
         LET from == [day |-> NowDay - (7 - k), ms |-> 0]
             to   == [day |-> NowDay - (7 - k) + 1, ms |-> 0]
         IN  aggOut.dailyTrend[k].amount =
               TotalWhere(aggSales, LAMBDA sale :
                 DateGE(sale.date, from) /\ ~DateGE(sale.date, to))
    /\ SeriesTotal(aggOut.dailyTrend) =
         TotalWhere(aggSales, LAMBDA sale : sale.date.day \in (NowDay - 6)..NowDay)

C17_Witness ==
  /\ AggRan
  /\ \E i, j \in 1..Len(aggSales) :
       /\ aggSales[i].date = [day |-> NowDay, ms |-> 0]
       /\ aggSales[j].date.day = NowDay - 1
       /\ aggOut.dailyTrend[7].amount = aggSales[i].totalAmount
       /\ aggOut.dailyTrend[6].amount = aggSales[j].totalAmount
       /\ aggSales[i].totalAmount # aggSales[j].totalAmount

\* C18: for every `now` the six monthlyBreakdown buckets are the six
\* consecutive calendar months ending with today's month, bucket i starting on
\* the first day of the month i months before, and no sale is counted twice.
C18_SixConsecutiveMonths ==
  AggRan =>
    /\ \A i \in 0..5 :
         /\ MonthStart(aggNow, i) =
              MakeDate(getFullYear(aggNow), getMonth(aggNow) - i, 1)
         /\ aggOut.monthlyBreakdown[6 - i].month = MonthName(getMonth(aggNow) + 12 - i)
    /\ \A i, j \in 0..5 : i # j => MonthStart(aggNow, i) # MonthStart(aggNow, j)
    /\ SeriesTotal(aggOut.monthlyBreakdown) <= SumAmounts(aggSales)

\* C19: a monthlyBreakdown entry sums the sales from the first midnight of its
\* month up to and including the midnight that starts the month's last day: a
\* sale stamped exactly at that instant is counted in the entry.
C19_MonthBucketsEndInclusive ==
  AggRan =>
    \A i \in 0..5 :
      LET first == MonthStart(aggNow, i).day
          last  == first + DaysInMonth(getFullYear(MonthStart(aggNow, i)),
                                       getMonth(MonthStart(aggNow, i))) - 1
      IN  /\ MonthEnd(aggNow, i) = [day |-> last, ms |-> 0]
          /\ aggOut.monthlyBreakdown[6 - i].amount =
               TotalWhere(aggSales, LAMBDA sale :
                 \/ sale.date.day \in first..(last - 1)
                 \/ sale.date = [day |-> last, ms |-> 0])

C19_Witness ==
  /\ AggRan
  /\ \E n \in 1..Len(aggSales) :
       /\ aggSales[n].date = MonthEnd(aggNow, 0)
       /\ aggSales[n].totalAmount > 0
       /\ aggOut.monthlyBreakdown[6].amount >= aggSales[n].totalAmount

\* C20: weeklyDistribution has the seven entries Sun, Mon, Tue, Wed, Thu, Fri,
\* Sat in this order; an entry sums the sales of its weekday from the midnight
\* seven days before today on, older sales adding nothing; so a sale of the
\* calendar day seven days before today is in the entry of today's sales.
C20_WeeklyDistributionByWeekday ==
  AggRan =>
    /\ Len(aggOut.weeklyDistribution) = 7
    /\ \A k \in 1..7 :
         aggOut.weeklyDistribution[k] =
           [day    |-> <<"Sun", "Mon", "Tue", "Wed", "Thu", "Fri", "Sat">>[k],
            amount |-> TotalWhere(aggSales, LAMBDA sale :
                         /\ sale.date.day >= NowDay - 7
                         /\ (sale.date.day + 3) % 7 = k - 1)]
    /\ aggOut.weeklyDistribution[getDay(aggNow) + 1].amount >=
         TotalWhere(aggSales, LAMBDA sale : sale.date.day \in {NowDay - 7, NowDay})

C20_Witness ==
  /\ AggRan
  /\ \E i, j \in 1..Len(aggSales) :
       /\ aggSales[i].date.day = NowDay
       /\ aggSales[j].date.day = NowDay - 7
       /\ aggSales[i].totalAmount > 0
       /\ aggSales[j].totalAmount > 0
       /\ aggOut.weeklyDistribution[getDay(aggNow) + 1].amount =
            aggSales[i].totalAmount + aggSales[j].totalAmount
  /\ \E n \in 1..Len(aggSales) :
       aggSales[n].date.day < NowDay - 7 /\ aggSales[n].totalAmount > 0

\* C24: for every `now` monthAgo is not after weekAgo and weekAgo not after
\* today, so dailySales <= weeklySales <= monthlySales on any list of
\* non-negative amounts; also on a 29th, 30th or 31st.
C24_WindowsAreNested ==
  AggRan =>
    /\ DateGE(WeekAgo(aggNow), MonthAgo(aggNow))
    /\ DateGE(Today(aggNow), WeekAgo(aggNow))
    /\ aggOut.dailySales <= aggOut.weeklySales
    /\ aggOut.weeklySales <= aggOut.monthlySales

C24_Witness ==
  /\ AggRan
  /\ getDate(aggNow) = 31
  /\ getMonth(MonthAgo(aggNow)) = getMonth(aggNow)
  /\ 0 < aggOut.dailySales
  /\ aggOut.dailySales < aggOut.weeklySales
  /\ aggOut.weeklySales <= aggOut.monthlySales

\* a sale of the last calendar day of its month, after that day's midnight
LateOnLastDay(sale) ==
  /\ sale.date.ms > 0
  /\ getDate(sale.date) = DaysInMonth(getFullYear(sale.date), getMonth(sale.date))

\* C25: a sale of the last calendar day of a month, stamped after 00:00:00.000,
\* is in no monthlyBreakdown entry (the entries are those of the list without
\* such sales) while monthlySales counts it when it is at or after monthAgo.
C25_LastDaySalesLeftOut ==
  AggRan =>
    /\ aggOut.monthlyBreakdown =
         monthlyBreakdown(SelectSeq(aggSales, LAMBDA sale : ~LateOnLastDay(sale)), aggNow)
    /\ aggOut.monthlySales >=
         TotalWhere(aggSales, LAMBDA sale :
           LateOnLastDay(sale) /\ sale.date.day >= NowDay - DaysInPreviousMonth)

C25_Witness ==
  /\ AggRan
  /\ \E n \in 1..Len(aggSales) :
       /\ LateOnLastDay(aggSales[n])
       /\ aggSales[n].totalAmount > 0
       /\ aggSales[n].date.day >= MonthStart(aggNow, 1).day
       /\ aggSales[n].date.day < NowDay
       /\ aggOut.monthlySales >= aggSales[n].totalAmount
       /\ SeriesTotal(aggOut.monthlyBreakdown) < aggSales[n].totalAmount

\* C22: overlapping invocations of fetchReportData do not race: loading is
\* true as long as a getSales call is awaited, and once none is, the aggregate
\* shown is that of the invocation started last (when its call resolved),
\* whatever the order the responses came in.
C22_OverlappingFetchesDoNotRace ==
  /\ inflight # {} => loading
  /\ (inflight = {} /\ \E k \in 1..Len(resolved) : resolved[k] = started) =>
       resolved[Len(resolved)] = started

\* C26: a step in which a rejected getSales is handled leaves reportData as it
\* was and sets loading to false; a step in which a resolved one is handled
\* sets loading to false too.
C26_RejectionLeavesReportData ==
  [][ \A r \in inflight :
        (inflight' = inflight \ {r}) =>
          /\ loading' = FALSE
          /\ r.status = "failed" => reportData' = reportData ]_vars

C26_Witness ==
  /\ started = 2
  /\ resolved = <<1>>
  /\ inflight = {}
  /\ ~loading
  /\ lastSales # <<>>
  /\ reportData = AggregateReport(lastSales, lastNow)
  /\ reportData # InitialReportData

\* C28: a call answered 401 rejects with the message AUTH_REQUIRED, the
\* stored token and user removed.
C28_UnauthorizedRejectsWithAuthRequired ==
  \A r \in inflight :
    r.http = 401 => (r.error = "AUTH_REQUIRED" /\ ~token)

\* C29: a step of POST /sales that stores a sale stores one whose items all
\* refer to products the requester has at that step, and a request answered
\* 404 stores none.
C29_StoredSaleProductsExist ==
  [][ /\ Len(saleDocs') > Len(saleDocs) =>
           LET sale == saleDocs'[Len(saleDocs')]
           IN  \A i \in 1..Len(sale.items) :
                 FindProduct(sale.items[i].productId, sale.userId) # {}
      /\ (resp'.route = "POST /sales" /\ resp'.status = 404 /\ resp' # resp) =>
           saleDocs' = saleDocs ]_vars

\* C23: every line of the cart has an integer quantityInCart of at least 1 and
\* no two lines carry the same product id, so every item processCheckout
\* submits has a positive integer quantity.
C23_CartQuantitiesPositive ==
  /\ \A i \in 1..Len(cart) : cart[i].quantityInCart \in Nat \ {0}
  /\ \A i, j \in 1..Len(cart) : cart[i]._id = cart[j]._id => i = j
  /\ post # NoPost =>
       \A i \in 1..Len(post.sale.items) : post.sale.items[i].quantity \in Nat \ {0}
  /\ \A k \in 1..Len(saleDocs) :
       \A i \in 1..Len(saleDocs[k].items) : saleDocs[k].items[i].quantity \in Nat \ {0}

C23_Witness ==
  /\ post # NoPost
  /\ Len(post.sale.items) = 2
  /\ post.sale.items[1].quantity = 2
  /\ Len(cart) = 1
  /\ cart[1]._id = post.sale.items[2].productId
  /\ cart[1].quantityInCart = 2

\* C30: a step that settles the createSale of processCheckout empties the cart
\* exactly when the call resolved, and then closes the checkout modal, opens
\* the receipt modal and sets the receipt's totalAmount to the total sent; when
\* it rejected, cart, receiptData and showReceiptModal stay; the cart is not
\* touched while the call starts; and from an empty cart with the checkout
\* modal closed no step opens the modal or creates a sale.
C30_CheckoutClearsCartOnSuccessOnly ==
  [][ /\ (post.status = "created" /\ post' = NoPost) =>
           /\ cart' = <<>>
           /\ ~showCheckoutModal'
           /\ showReceiptModal'
           /\ receiptData'.totalAmount = post.sale.totalAmount
      /\ (post.status = "notfound" /\ post' = NoPost) =>
           /\ cart' = cart
           /\ receiptData' = receiptData
           /\ showReceiptModal' = showReceiptModal
      /\ (post = NoPost /\ post' # NoPost) => cart' = cart
      /\ (cart = <<>> /\ ~showCheckoutModal) =>
           /\ ~showCheckoutModal'
           /\ created'.sales = created.sales ]_vars

C30_Witness ==
  /\ showReceiptModal
  /\ ~showCheckoutModal
  /\ cart = <<>>
  /\ post = NoPost
  /\ Len(saleDocs) = 1
  /\ receiptData # Null
  /\ receiptData.transactionId = saleDocs[1]._id
  /\ receiptData.totalAmount = saleDocs[1].totalAmount
  /\ Len(receiptData.items) = 2

\* the amount a formatted text shows, in minor units: the digits before the
\* point, commas dropped, and the two digits after it
WithoutCommas(text) == SelectSeq(text, LAMBDA ch : ch # ",")

ShowsAmount(text, amount) ==
  LET plain == WithoutCommas(text)
      n     == Len(plain)
  IN  /\ n >= 4
      /\ plain[n - 2] = "."
      /\ \A k \in (1..n) \ {n - 2} : IsDigit(plain[k])
      /\ 100 * DigitsValue(SubSeq(plain, 1, n - 3)) + DigitsValue(SubSeq(plain, n - 1, n))
           = amount

\* a chart's data against its series: ten minor units (0.1) where the amount
\* is 0, the amount elsewhere
SeriesCharted(series, data) ==
  /\ Len(data) = Len(series)
  /\ \A k \in 1..Len(series) :
       /\ series[k].amount = 0 => data[k] = 10
       /\ series[k].amount # 0 => data[k] = series[k].amount

\* a table's rows against its series
SeriesPrinted(series, rows) ==
  /\ Len(rows) = Len(series)
  /\ \A k \in 1..Len(series) : ShowsAmount(rows[k].amount, series[k].amount)

CardsShow(cards, rd) ==
  /\ ShowsAmount(cards.dailySales, rd.dailySales)
  /\ ShowsAmount(cards.weeklySales, rd.weeklySales)
  /\ ShowsAmount(cards.monthlySales, rd.monthlySales)

HtmlShows(html, rd) ==
  /\ CardsShow(html.cards, rd)
  /\ SeriesPrinted(rd.dailyTrend, html.dailyTrend)
  /\ SeriesPrinted(rd.weeklyDistribution, html.weeklyDistribution)
  /\ SeriesPrinted(rd.monthlyBreakdown, html.monthlyBreakdown)

\* C21: the chart data are the sentinel 0.1 exactly where a bucket's amount is
\* 0 and the amount elsewhere; the summary cards and the tables of every
\* exported document show the amounts themselves, 0.00 for an empty bucket;
\* and no step of rendering or exporting changes reportData.
C21_SentinelOnlyInCharts ==
  /\ [](chart # Null =>
          /\ SeriesCharted(reportData.dailyTrend, chart.charts.dailyTrend.data)
          /\ SeriesCharted(reportData.weeklyDistribution, chart.charts.weeklyDistribution.data)
          /\ SeriesCharted(reportData.monthlyBreakdown, chart.charts.monthlyBreakdown.data)
          /\ CardsShow(chart.cards, reportData))
  /\ []((\A job \in printJobs : HtmlShows(job.html, reportData))
          /\ (reportFile # Null => HtmlShows(reportFile.html, reportData)))
  /\ [][reportData' = reportData]_vars

C21_Witness ==
  /\ chart # Null
  /\ reportFile # Null
  /\ \E k \in 1..Len(reportData.dailyTrend) :
       /\ reportData.dailyTrend[k].amount = 0
       /\ chart.charts.dailyTrend.data[k] = 10
       /\ reportFile.html.dailyTrend[k].amount = <<"0", ".", "0", "0">>
  /\ \E k \in 1..Len(reportData.dailyTrend) :
       /\ reportData.dailyTrend[k].amount = 5
       /\ chart.charts.dailyTrend.data[k] = 5
       /\ reportFile.html.dailyTrend[k].amount = <<"0", ".", "0", "5">>
  /\ reportFile.html.cards.dailySales = <<"1", ",", "2", "3", "4", ".", "5", "6">>

\* C27: the export modal is shown only while a reportFile is set; a generatePDF
\* whose printToFileAsync rejected leaves showModal and reportFile as they
\* were; and without a reportFile no step hands a file over or, short of
\* setting one, changes showModal.
C27_ModalOnlyWithReportFile ==
  /\ [](showModal => reportFile # Null)
  /\ [][ /\ \A job \in printJobs :
              (job.status = "rejected" /\ printJobs' = printJobs \ {job}) =>
                (showModal' = showModal /\ reportFile' = reportFile)
         /\ reportFile = Null =>
              /\ shared' = shared
              /\ reportFile' = Null => showModal' = showModal ]_vars

C27_Witness ==
  /\ ~showModal
  /\ reportFile # Null
  /\ reportFile.uri = 1
  /\ prints = 2
  /\ printJobs = {}
  /\ ~loading
  /\ shared = { Handed(reportFile, "share") }

====
